---- MODULE Spec2Model ----
(***************************************************************************)
(* Model of normcap's overlay window, src/normcap/gui/base_window.py.      *)
(*                                                                         *)
(* One BaseWindow is created per screen; the window of screen 0 is the     *)
(* main window, every other window routes its signals through              *)
(* main_window.com.  The state is the per-window selection state, the      *)
(* external capture mode, and the signals emitted by the handler that ran  *)
(* last.  The two geometry helpers (_to_global_rect, _sanatize_rect) are   *)
(* operators; SpecGeom applies them to every rectangle of a small grid.    *)
(* SpecConstruct runs __init__ with set_fullscreen on every platform value; *)
(* Spec starts from the windows it leaves on Linux.                         *)
(*                                                                         *)
(* The glyphs of _get_mode_indicator_char are written by name, because     *)
(* strings of the module are ASCII: "TRIGRAM" is U+2630, "STAR" is U+2605. *)
(***************************************************************************)
EXTENDS Integers, Sequences, FiniteSets

VARIABLES
    platform,         \* system_info.platform
    display_manager,  \* system_info.display_manager
    screens,          \* system_info.screens: the offset (left, top) of each screen
    capture_mode,     \* main_window.capture.mode
    is_selecting,     \* per window
    selection_rect,   \* per window
    mode_indicator,   \* per window
    is_positioned,    \* per window
    n_positioned,     \* per window: on_window_positioned signals emitted so far
    emitted,          \* the signals the handler that ran last emitted on main_window.com, in order
    constructed,      \* per window: "new" before __init__, then "ok" or "failed" (it raised)
    fullscreen,       \* per window: the placement procedure set_fullscreen applied
    shown,            \* per window: show() or showFullScreen() was called
    g_rect,           \* SpecGeom: the rectangle given to the geometry helper
    g_screen,         \* SpecGeom: the screen offset given to _to_global_rect
    g_op,             \* SpecGeom: the helper that was applied
    g_out             \* SpecGeom: what the helper returned

vars == <<platform, display_manager, screens, capture_mode, is_selecting,
          selection_rect, mode_indicator, is_positioned, n_positioned, emitted,
          constructed, fullscreen, shown,
          g_rect, g_screen, g_op, g_out>>

winvars == <<is_selecting, selection_rect, mode_indicator, is_positioned, n_positioned>>
ctorvars == <<constructed, fullscreen, shown>>
sysvars == <<platform, display_manager, screens, ctorvars>>
geomvars == <<g_rect, g_screen, g_op, g_out>>

----------------------------------------------------------------------------
(* Bounds *)

\* number of pointer positions of PointTable the events draw from
NPoints == 2
\* SpecGeom: rectangle edges range over 0..MaxCoord
MaxCoord == 9
\* the handlers stop being scheduled once a window has emitted this many
\* on_window_positioned signals
MaxPositioned == 2

----------------------------------------------------------------------------
(* Program constants and input domains *)

pen_width == 2
margin_correction == 4

\* window w is the window of screen w; window 0 is the main window
Windows == {0, 1}
screen_idx(w) == w
main_window(w) == 0

Min(a, b) == IF a <= b THEN a ELSE b
Max(a, b) == IF a >= b THEN a ELSE b

PointTable ==
    << [x |-> 100, y |-> 100], [x |-> 300, y |-> 50],
       [x |-> 103, y |-> 101], [x |-> 96,  y |-> 108] >>
Points == { PointTable[i] : i \in 1..Min(NPoints, Len(PointTable)) }

Buttons == {"LeftButton", "RightButton"}
Keys == {"Key_Escape", "Key_Return"}
ChangeTypes == {"ActivationChange", "WindowStateChange"}
CaptureModes == {"RAW", "PARSE", "OTHER"}
DisplayManagers == {"WAYLAND", "X11"}
Platforms == {"LINUX", "MACOS", "WINDOWS", "OTHER"}

\* screen layouts: the (left, top) of the screens of the two windows
ScreenLayouts ==
    { << [left |-> 0, top |-> 0],    [left |-> 1920, top |-> 0] >>,
      << [left |-> 0, top |-> 1080], [left |-> 0,    top |-> 0] >> }

Rect(t, l, b, r) == [top |-> t, left |-> l, bottom |-> b, right |-> r]
\* Rect() of normcap.models: all edges 0
EmptyRect == Rect(0, 0, 0, 0)

\* a signal as a connected slot sees it: its name, its payload, and the emitting
\* window's is_selecting and is_positioned at the moment of the emit
Signal(name, payload, sel, posd) ==
    [sig |-> name, payload |-> payload, selecting |-> sel, positioned |-> posd]
NoPayload == [rect |-> EmptyRect, idx |-> -1, reason |-> ""]

----------------------------------------------------------------------------
(* Utility *)

\* variant: the vertical translation nested under the horizontal test
ToGlobalRect_nested(rect, screen) ==
    LET offset_x == screen.left
        offset_y == screen.top
        r1 == IF offset_x # 0
              THEN [rect EXCEPT !.left = @ + offset_x, !.right = @ + offset_x]
              ELSE rect
        r2 == IF offset_x # 0 /\ offset_y # 0
              THEN [r1 EXCEPT !.top = @ + offset_y, !.bottom = @ + offset_y]
              ELSE r1
    IN  [r2 EXCEPT !.left = @ + pen_width, !.top = @ + pen_width,
                   !.right = @ - pen_width, !.bottom = @ - pen_width]

ToGlobalRect(rect, screen) ==
    LET offset_x == screen.left
        offset_y == screen.top
        r1 == IF offset_x # 0
              THEN [rect EXCEPT !.left = @ + offset_x, !.right = @ + offset_x]
              ELSE rect
        r2 == IF offset_y # 0
              THEN [r1 EXCEPT !.top = @ + offset_y, !.bottom = @ + offset_y]
              ELSE r1
    IN  [r2 EXCEPT !.left = @ + pen_width, !.top = @ + pen_width,
                   !.right = @ - pen_width, !.bottom = @ - pen_width]

\* variant: the edges exchanged without the margin correction
SanatizeRect_nomargin(rect) ==
    LET r1 == IF rect.top > rect.bottom
              THEN [rect EXCEPT !.top = rect.bottom, !.bottom = rect.top]
              ELSE rect
    IN  IF r1.left > r1.right
        THEN [r1 EXCEPT !.left = r1.right, !.right = r1.left]
        ELSE r1

\* variant: the tests written with >= instead of >
SanatizeRect_ge(rect) ==
    LET r1 == IF rect.top >= rect.bottom
              THEN [rect EXCEPT !.top = rect.bottom + margin_correction,
                                !.bottom = rect.top - margin_correction]
              ELSE rect
    IN  IF r1.left >= r1.right
        THEN [r1 EXCEPT !.left = r1.right + margin_correction,
                        !.right = r1.left - margin_correction]
        ELSE r1

\* variant: the horizontal test written as elif of the vertical one
SanatizeRect_elif(rect) ==
    IF rect.top > rect.bottom
    THEN [rect EXCEPT !.top = rect.bottom + margin_correction,
                      !.bottom = rect.top - margin_correction]
    ELSE IF rect.left > rect.right
         THEN [rect EXCEPT !.left = rect.right + margin_correction,
                           !.right = rect.left - margin_correction]
         ELSE rect

SanatizeRect(rect) ==
    LET r1 == IF rect.top > rect.bottom
              THEN [rect EXCEPT !.top = rect.bottom + margin_correction,
                                !.bottom = rect.top - margin_correction]
              ELSE rect
    IN  IF r1.left > r1.right
        THEN [r1 EXCEPT !.left = r1.right + margin_correction,
                        !.right = r1.left - margin_correction]
        ELSE r1

\* variant: the two glyphs exchanged
GetModeIndicatorChar_swapped ==
    IF capture_mode = "RAW" THEN "STAR"
    ELSE IF capture_mode = "PARSE" THEN "TRIGRAM"
    ELSE ""

GetModeIndicatorChar ==
    IF capture_mode = "RAW" THEN "TRIGRAM"
    ELSE IF capture_mode = "PARSE" THEN "STAR"
    ELSE ""

----------------------------------------------------------------------------
(* Adjust UI *)

\* variant: the final else falls back to the Linux procedure
FullscreenStrategy_fallback(pf, dm) ==
    IF pf = "LINUX"
    THEN IF dm = "WAYLAND" THEN "linux_wayland" ELSE "linux_wayland"
    ELSE IF pf = "MACOS" THEN "macos"
    ELSE IF pf = "WINDOWS" THEN "windows"
    ELSE "linux_wayland"

\* set_fullscreen: the procedure called, "NotImplementedError" when it raises
FullscreenStrategy(pf, dm) ==
    IF pf = "LINUX"
    THEN IF dm = "WAYLAND" THEN "linux_wayland" ELSE "linux_wayland"
    ELSE IF pf = "MACOS" THEN "macos"
    ELSE IF pf = "WINDOWS" THEN "windows"
    ELSE "NotImplementedError"

\* _set_fullscreen_linux_wayland ends with show(), _set_fullscreen_windows with
\* showFullScreen(); _set_fullscreen_macos only sets the geometry
StrategyShows(strategy) == strategy \in {"linux_wayland", "windows"}

----------------------------------------------------------------------------
(* Construction *)

\* the windows after construction on Linux, the platform of both display managers
Init ==
    /\ platform = "LINUX"
    /\ display_manager \in DisplayManagers
    /\ constructed = [w \in Windows |-> "ok"]
    /\ fullscreen = [w \in Windows |-> FullscreenStrategy(platform, display_manager)]
    /\ shown = [w \in Windows |-> StrategyShows(fullscreen[w])]
    /\ screens \in ScreenLayouts
    /\ capture_mode \in CaptureModes
    /\ is_selecting = [w \in Windows |-> FALSE]
    /\ selection_rect = [w \in Windows |-> EmptyRect]
    /\ mode_indicator = [w \in Windows |-> "?"]
    /\ is_positioned = [w \in Windows |-> FALSE]
    /\ n_positioned = [w \in Windows |-> 0]
    /\ emitted = << >>
    /\ g_rect = EmptyRect
    /\ g_screen = [left |-> 0, top |-> 0]
    /\ g_op = "none"
    /\ g_out = EmptyRect

----------------------------------------------------------------------------
(* Events *)

\* variant: the button test dropped
PressStarts_any(button) == TRUE

\* mousePressEvent: event.button() == LeftButton
PressStarts(button) == button = "LeftButton"

\* variant: the is_selecting test dropped
ReleaseCompletes_noguard(w, button) == button = "LeftButton"

\* mouseReleaseEvent: event.button() == LeftButton and self.is_selecting
ReleaseCompletes(w, button) == button = "LeftButton" /\ is_selecting[w]

\* variant: x and y of the release point exchanged
FinalRect_swapped(w, pos) ==
    [selection_rect[w] EXCEPT !.bottom = pos.x, !.right = pos.y]

\* mouseReleaseEvent: the selection rectangle with bottom and right set to the
\* release point, before it is copied and converted
FinalRect(w, pos) ==
    [selection_rect[w] EXCEPT !.bottom = pos.y, !.right = pos.x]

\* variant: the two conversions in the other order
CaptureRect_swapped(rect, screen) == ToGlobalRect(SanatizeRect(rect), screen)

\* mouseReleaseEvent: deepcopy, _to_global_rect, _sanatize_rect
CaptureRect(rect, screen) == SanatizeRect(ToGlobalRect(rect, screen))

\* variant: the payload carries the main window's screen index
ReleaseSignals_mainidx(w, capture_rect, sel) ==
    << Signal("on_set_cursor_wait", NoPayload, sel, is_positioned[w]),
       Signal("on_minimize_windows", NoPayload, sel, is_positioned[w]),
       Signal("on_region_selected",
              [NoPayload EXCEPT !.rect = capture_rect,
                                !.idx = screen_idx(main_window(w))],
              sel, is_positioned[w]) >>

\* mouseReleaseEvent: the emits of a completed selection, in program order;
\* sel is is_selecting of the window when the emits run
ReleaseSignals(w, capture_rect, sel) ==
    << Signal("on_set_cursor_wait", NoPayload, sel, is_positioned[w]),
       Signal("on_minimize_windows", NoPayload, sel, is_positioned[w]),
       Signal("on_region_selected",
              [NoPayload EXCEPT !.rect = capture_rect, !.idx = screen_idx(w)],
              sel, is_positioned[w]) >>

\* variant: the text placed from right and top as they are
paintEvent_raw(w) ==
    IF ~is_selecting[w]
    THEN << >>
    ELSE << [op |-> "drawRect", rect |-> selection_rect[w]],
            [op |-> "drawText",
             x |-> selection_rect[w].right - 18,
             y |-> selection_rect[w].top - 8,
             text |-> mode_indicator[w]] >>

\* paintEvent: the painter calls it makes, in order; it changes no state
paintEvent(w) ==
    IF ~is_selecting[w]
    THEN << >>
    ELSE << [op |-> "drawRect", rect |-> selection_rect[w]],
            [op |-> "drawText",
             x |-> Max(selection_rect[w].right, selection_rect[w].left) - 18,
             y |-> Min(selection_rect[w].bottom, selection_rect[w].top) - 8,
             text |-> mode_indicator[w]] >>

\* variant: the else of the Escape branch is missing, the quit is emitted too
keyPressEvent_noelse(w, key) ==
    /\ IF key = "Key_Escape"
       THEN /\ is_selecting' = [is_selecting EXCEPT ![w] = FALSE]
            /\ emitted' = << Signal("on_quit_or_hide",
                                    [NoPayload EXCEPT !.reason = "esc button pressed"],
                                    is_selecting'[w], is_positioned[w]) >>
       ELSE /\ emitted' = << >>
            /\ UNCHANGED is_selecting
    /\ UNCHANGED <<selection_rect, mode_indicator, is_positioned, n_positioned>>
    /\ UNCHANGED <<sysvars, capture_mode, geomvars>>

keyPressEvent(w, key) ==
    /\ IF key = "Key_Escape"
       THEN IF is_selecting[w]
            THEN /\ is_selecting' = [is_selecting EXCEPT ![w] = FALSE]
                 /\ emitted' = << >>
            ELSE /\ emitted' = << Signal("on_quit_or_hide",
                                         [NoPayload EXCEPT !.reason = "esc button pressed"],
                                         is_selecting[w], is_positioned[w]) >>
                 /\ UNCHANGED is_selecting
       ELSE /\ emitted' = << >>
            /\ UNCHANGED is_selecting
    /\ UNCHANGED <<selection_rect, mode_indicator, is_positioned, n_positioned>>
    /\ UNCHANGED <<sysvars, capture_mode, geomvars>>

mousePressEvent(w, button, pos) ==
    /\ emitted' = << >>
    /\ IF PressStarts(button)
       THEN /\ is_selecting' = [is_selecting EXCEPT ![w] = TRUE]
            /\ mode_indicator' = [mode_indicator EXCEPT ![w] = GetModeIndicatorChar]
            /\ selection_rect' = [selection_rect EXCEPT ![w] = Rect(pos.y, pos.x, pos.y, pos.x)]
       ELSE UNCHANGED <<is_selecting, mode_indicator, selection_rect>>
    /\ UNCHANGED <<is_positioned, n_positioned>>
    /\ UNCHANGED <<sysvars, capture_mode, geomvars>>

\* variant: the rectangle of main_window is written instead of the window's own
mouseMoveEvent_main(w, pos) ==
    /\ emitted' = << >>
    /\ selection_rect' = [selection_rect EXCEPT ![main_window(w)].bottom = pos.y,
                                                ![main_window(w)].right = pos.x]
    /\ UNCHANGED <<is_selecting, mode_indicator, is_positioned, n_positioned>>
    /\ UNCHANGED <<sysvars, capture_mode, geomvars>>

mouseMoveEvent(w, pos) ==
    /\ emitted' = << >>
    /\ selection_rect' = [selection_rect EXCEPT ![w].bottom = pos.y, ![w].right = pos.x]
    /\ UNCHANGED <<is_selecting, mode_indicator, is_positioned, n_positioned>>
    /\ UNCHANGED <<sysvars, capture_mode, geomvars>>

mouseReleaseEvent(w, button, pos) ==
    /\ IF ReleaseCompletes(w, button)
       THEN LET final == FinalRect(w, pos)
                capture_rect == CaptureRect(final, screens[screen_idx(w) + 1])
            IN  /\ is_selecting' = [is_selecting EXCEPT ![w] = FALSE]
                /\ emitted' = ReleaseSignals(w, capture_rect, is_selecting'[w])
                /\ selection_rect' = [selection_rect EXCEPT ![w] = EmptyRect]
       ELSE /\ emitted' = << >>
            /\ UNCHANGED <<is_selecting, selection_rect>>
    /\ UNCHANGED <<mode_indicator, is_positioned, n_positioned>>
    /\ UNCHANGED <<sysvars, capture_mode, geomvars>>

\* variant: the flag is not set
PositionWindowsOnWayland_noflag(w) == UNCHANGED is_positioned

\* _position_windows_on_wayland: the external move, then is_positioned = True
PositionWindowsOnWayland(w) ==
    is_positioned' = [is_positioned EXCEPT ![w] = TRUE]

\* isActive is what self.isActiveWindow() returns while the handler runs
changeEvent(w, type, isActive) ==
    /\ n_positioned[w] < MaxPositioned
    /\ IF /\ type = "ActivationChange"
          /\ display_manager = "WAYLAND"
          /\ isActive
          /\ ~is_positioned[w]
       THEN /\ PositionWindowsOnWayland(w)
            /\ emitted' = << Signal("on_window_positioned", NoPayload,
                                     is_selecting[w], is_positioned'[w]) >>
            /\ n_positioned' = [n_positioned EXCEPT ![w] = @ + 1]
       ELSE /\ emitted' = << >>
            /\ UNCHANGED <<is_positioned, n_positioned>>
    /\ UNCHANGED <<is_selecting, selection_rect, mode_indicator>>
    /\ UNCHANGED <<sysvars, capture_mode, geomvars>>

\* the capture collaborator changes its mode
SetCaptureMode(m) ==
    /\ m # capture_mode
    /\ capture_mode' = m
    /\ emitted' = << >>
    /\ UNCHANGED <<winvars, sysvars, geomvars>>

Next ==
    \/ \E w \in Windows, key \in Keys : keyPressEvent(w, key)
    \/ \E w \in Windows, b \in Buttons, p \in Points : mousePressEvent(w, b, p)
    \/ \E w \in Windows, p \in Points : mouseMoveEvent(w, p)
    \/ \E w \in Windows, b \in Buttons, p \in Points : mouseReleaseEvent(w, b, p)
    \/ \E w \in Windows, t \in ChangeTypes, a \in BOOLEAN : changeEvent(w, t, a)
    \/ \E m \in CaptureModes : SetCaptureMode(m)

Spec == Init /\ [][Next]_vars

----------------------------------------------------------------------------
(* The geometry helpers on their own: every rectangle with edges in        *)
(* 0..MaxCoord, every screen offset of Offsets, one helper applied.         *)

Coords == 0..MaxCoord
Rects == [top : Coords, left : Coords, bottom : Coords, right : Coords]
Offsets == [left : {0, 1920}, top : {0, 1080}]

InitGeom ==
    /\ platform = "LINUX"
    /\ constructed = [w \in Windows |-> "ok"]
    /\ fullscreen = [w \in Windows |-> "linux_wayland"]
    /\ shown = [w \in Windows |-> TRUE]
    /\ display_manager = "X11"
    /\ screens = << [left |-> 0, top |-> 0], [left |-> 1920, top |-> 0] >>
    /\ capture_mode = "RAW"
    /\ is_selecting = [w \in Windows |-> FALSE]
    /\ selection_rect = [w \in Windows |-> EmptyRect]
    /\ mode_indicator = [w \in Windows |-> "?"]
    /\ is_positioned = [w \in Windows |-> FALSE]
    /\ n_positioned = [w \in Windows |-> 0]
    /\ emitted = << >>
    /\ g_rect \in Rects
    /\ g_screen \in Offsets
    /\ g_op = "none"
    /\ g_out = g_rect

GeomFrame == UNCHANGED <<winvars, sysvars, capture_mode, emitted, g_rect, g_screen>>

ApplyToGlobal ==
    /\ g_op = "none"
    /\ g_out' = ToGlobalRect(g_rect, g_screen)
    /\ g_op' = "to_global"
    /\ GeomFrame

ApplySanatize ==
    /\ g_op = "none"
    /\ g_out' = SanatizeRect(g_rect)
    /\ g_op' = "sanatize"
    /\ GeomFrame

ApplyCapture ==
    /\ g_op = "none"
    /\ g_out' = CaptureRect(g_rect, g_screen)
    /\ g_op' = "capture"
    /\ GeomFrame

NextGeom == ApplyToGlobal \/ ApplySanatize \/ ApplyCapture

SpecGeom == InitGeom /\ [][NextGeom]_vars

----------------------------------------------------------------------------
(* Construction as a step: BaseWindow.__init__ on every platform value.     *)
(* The main window is created first, a sibling gets it as parent.           *)

InitConstruct ==
    /\ platform \in Platforms
    /\ display_manager \in DisplayManagers
    /\ screens \in ScreenLayouts
    /\ capture_mode \in CaptureModes
    /\ constructed = [w \in Windows |-> "new"]
    /\ fullscreen = [w \in Windows |-> "none"]
    /\ shown = [w \in Windows |-> FALSE]
    /\ is_selecting = [w \in Windows |-> FALSE]
    /\ selection_rect = [w \in Windows |-> EmptyRect]
    /\ mode_indicator = [w \in Windows |-> "?"]
    /\ is_positioned = [w \in Windows |-> FALSE]
    /\ n_positioned = [w \in Windows |-> 0]
    /\ emitted = << >>
    /\ g_rect = EmptyRect
    /\ g_screen = [left |-> 0, top |-> 0]
    /\ g_op = "none"
    /\ g_out = EmptyRect

\* __init__: the fields, then set_fullscreen, which raises on an unknown platform
Construct(w) ==
    /\ constructed[w] = "new"
    /\ w # main_window(w) => constructed[main_window(w)] = "ok"
    /\ selection_rect' = [selection_rect EXCEPT ![w] = EmptyRect]
    /\ is_positioned' = [is_positioned EXCEPT ![w] = FALSE]
    /\ is_selecting' = [is_selecting EXCEPT ![w] = FALSE]
    /\ mode_indicator' = [mode_indicator EXCEPT ![w] = "?"]
    /\ LET strategy == FullscreenStrategy(platform, display_manager)
       IN  IF strategy = "NotImplementedError"
           THEN /\ constructed' = [constructed EXCEPT ![w] = "failed"]
                /\ UNCHANGED <<fullscreen, shown>>
           ELSE /\ constructed' = [constructed EXCEPT ![w] = "ok"]
                /\ fullscreen' = [fullscreen EXCEPT ![w] = strategy]
                /\ shown' = [shown EXCEPT ![w] = StrategyShows(strategy)]
    /\ UNCHANGED <<platform, display_manager, screens, capture_mode,
                   n_positioned, emitted, geomvars>>

NextConstruct == \E w \in Windows : Construct(w)

SpecConstruct == InitConstruct /\ [][NextConstruct]_vars

----------------------------------------------------------------------------
(* Properties *)

Ordered(rect) == rect.top <= rect.bottom /\ rect.left <= rect.right

RegionSignals == { i \in DOMAIN emitted : emitted[i].sig = "on_region_selected" }

\* C1: the rectangle of every emitted on_region_selected signal has
\* top <= bottom and left <= right, whatever the press and release points.
C1_RegionOrdered ==
    \A i \in RegionSignals : Ordered(emitted[i].payload.rect)

\* C2: _sanatize_rect returns a rectangle with top <= bottom and left <= right
\* for every input rectangle.
C2_SanatizeOrdered ==
    g_op = "sanatize" => Ordered(g_out)

\* C3: a primary-button release on a selecting window emits exactly
\* on_set_cursor_wait, on_minimize_windows, on_region_selected, in that order,
\* each with is_selecting already false, and the payload carries the screen
\* index of the window that handled the release.
\* (P => Q is written Q \/ ~P, so that the handlers are compared with the step
\* only where Q fails.)
C3_ReleaseEmits ==
    [][ \A w \in Windows :
          \/ /\ Len(emitted') = 3
             /\ emitted'[1].sig = "on_set_cursor_wait"
             /\ emitted'[2].sig = "on_minimize_windows"
             /\ emitted'[3].sig = "on_region_selected"
             /\ \A i \in 1..3 : emitted'[i].selecting = FALSE
             /\ emitted'[3].payload.idx = screen_idx(w)
             /\ ~is_selecting'[w]
          \/ ~ ( is_selecting[w]
                 /\ \E p \in Points : mouseReleaseEvent(w, "LeftButton", p) )
      ]_vars

\* the sibling window completed a selection
C3_Witness ==
    /\ Len(emitted) = 3
    /\ emitted[3].sig = "on_region_selected"
    /\ emitted[3].payload.idx = screen_idx(1)
    /\ ~is_selecting[1]

\* C4: an Escape handled by a selecting window emits nothing and leaves the
\* window idle, and on an idle window no pointer move and no button release
\* emits anything or makes it selecting again.
\* (Written Q \/ ~P, as C3.)
C4_EscapeEmitsNothing ==
    [][ \A w \in Windows :
          \/ emitted' = << >> /\ ~is_selecting'[w]
          \/ ~ ( \/ is_selecting[w] /\ keyPressEvent(w, "Key_Escape")
                 \/ ~is_selecting[w] /\ \E p \in Points : mouseMoveEvent(w, p)
                 \/ ~is_selecting[w] /\ \E b \in Buttons, p \in Points :
                                            mouseReleaseEvent(w, b, p) )
      ]_vars

\* an aborted selection: the window is idle and its rectangle still has the
\* press point (only a press sets top, a completed release resets it)
C4_Witness ==
    \E w \in Windows :
        /\ ~is_selecting[w]
        /\ selection_rect[w].top # 0
        /\ emitted = << >>

\* C5: is_selecting goes from false to true only in a primary-button press,
\* from true to false only in a primary-button release or an Escape; other
\* buttons, other keys, pointer moves and change events leave it alone.
C5_SelectingTransitions ==
    [][ \A w \in Windows :
          /\ (~is_selecting[w] /\ is_selecting'[w])
             => \E p \in Points : mousePressEvent(w, "LeftButton", p)
          /\ (is_selecting[w] /\ ~is_selecting'[w])
             => \/ \E p \in Points : mouseReleaseEvent(w, "LeftButton", p)
                \/ keyPressEvent(w, "Key_Escape")
          /\ \/ is_selecting' = is_selecting
             \/ ~ ( \/ \E b \in Buttons \ {"LeftButton"}, p \in Points :
                          mousePressEvent(w, b, p) \/ mouseReleaseEvent(w, b, p)
                    \/ \E k \in Keys \ {"Key_Escape"} : keyPressEvent(w, k)
                    \/ \E p \in Points : mouseMoveEvent(w, p)
                    \/ \E t \in ChangeTypes, a \in BOOLEAN : changeEvent(w, t, a) )
      ]_vars

\* one window selecting while the other has been made idle again by an Escape
C5_Witness ==
    \E w, v \in Windows :
        /\ is_selecting[w]
        /\ ~is_selecting[v]
        /\ selection_rect[v].top # 0

\* C6: under Wayland the first activation of a window that is not positioned
\* sets is_positioned and then emits on_window_positioned; a positioned window
\* never emits it again, is_positioned never returns to false, so each window
\* has emitted it once exactly when it is positioned and never twice.
C6_PositionedOnce ==
    /\ [](\A w \in Windows : n_positioned[w] = IF is_positioned[w] THEN 1 ELSE 0)
    /\ [][ \A w \in Windows :
             /\ is_positioned[w] => is_positioned'[w]
             /\ ( /\ display_manager = "WAYLAND"
                  /\ ~is_positioned[w]
                  /\ changeEvent(w, "ActivationChange", TRUE) )
                => /\ is_positioned'[w]
                   /\ n_positioned'[w] = 1
                   /\ emitted' = << Signal("on_window_positioned", NoPayload,
                                           is_selecting[w], TRUE) >>
             /\ \/ emitted' = << >> /\ n_positioned'[w] = n_positioned[w]
                \/ ~ ( is_positioned[w]
                       /\ \E t \in ChangeTypes, a \in BOOLEAN : changeEvent(w, t, a) )
       ]_vars

\* a window was positioned and a later handler ran without emitting
C6_Witness ==
    \E w \in Windows :
        /\ display_manager = "WAYLAND"
        /\ is_positioned[w]
        /\ n_positioned[w] = 1
        /\ emitted = << >>

\* C7: _to_global_rect adds the screen's left to left and right, the screen's
\* top to top and bottom, then shrinks every side by pen_width 2; a zero
\* offset component contributes nothing.
C7_ToGlobal ==
    g_op = "to_global"
    => /\ g_out = Rect(g_rect.top + g_screen.top + 2, g_rect.left + g_screen.left + 2,
                       g_rect.bottom + g_screen.top - 2, g_rect.right + g_screen.left - 2)
       /\ (g_screen.left = 0 /\ g_screen.top = 0)
          => g_out = Rect(g_rect.top + 2, g_rect.left + 2,
                          g_rect.bottom - 2, g_rect.right - 2)

\* translated on a screen whose left offset is zero and top offset is not
C7_Witness ==
    /\ g_op = "to_global"
    /\ g_screen.left = 0
    /\ g_screen.top = 1080
    /\ g_out.top = g_rect.top + 1082
    /\ g_out.left = g_rect.left + 2

\* the reversed drag: press and release points exchanged
Reversed(rect) == Rect(rect.bottom, rect.right, rect.top, rect.left)

\* the span is positive on every axis where the drag has moved
NonDegenerate(drag, out) ==
    /\ drag.top # drag.bottom => out.top < out.bottom
    /\ drag.left # drag.right => out.left < out.right

\* C8: for a drag between two different points, the captured rectangle of the
\* drag and that of the reversed drag are both ordered and both non-degenerate.
C8_RoundTrip ==
    ( g_op = "capture" /\ (g_rect.top # g_rect.bottom \/ g_rect.left # g_rect.right) )
    => /\ Ordered(g_out)
       /\ Ordered(CaptureRect(Reversed(g_rect), g_screen))
       /\ NonDegenerate(g_rect, g_out)
       /\ NonDegenerate(Reversed(g_rect), CaptureRect(Reversed(g_rect), g_screen))

\* C9: _sanatize_rect returns an ordered rectangle unchanged, and changes no
\* edge of an axis that is not inverted.
C9_SanatizeOrderedUnchanged ==
    g_op = "sanatize"
    => /\ Ordered(g_rect) => g_out = g_rect
       /\ g_rect.top <= g_rect.bottom
          => g_out.top = g_rect.top /\ g_out.bottom = g_rect.bottom
       /\ g_rect.left <= g_rect.right
          => g_out.left = g_rect.left /\ g_out.right = g_rect.right

\* an ordered rectangle with both spans positive went through _sanatize_rect
C9_Witness ==
    /\ g_op = "sanatize"
    /\ g_rect.top < g_rect.bottom
    /\ g_rect.left < g_rect.right
    /\ g_out = g_rect

\* C10: the left and right _sanatize_rect returns are the same whatever the
\* input's top and bottom, its top and bottom the same whatever the input's
\* left and right; correcting one axis leaves the other axis' edges unchanged.
C10_SanatizeAxes ==
    g_op = "sanatize"
    => /\ \A t, b \in Coords :
             LET o == SanatizeRect([g_rect EXCEPT !.top = t, !.bottom = b])
             IN  o.left = g_out.left /\ o.right = g_out.right
       /\ \A l, r \in Coords :
             LET o == SanatizeRect([g_rect EXCEPT !.left = l, !.right = r])
             IN  o.top = g_out.top /\ o.bottom = g_out.bottom
       /\ (g_rect.top > g_rect.bottom /\ g_rect.left <= g_rect.right)
          => g_out.left = g_rect.left /\ g_out.right = g_rect.right
       /\ (g_rect.left > g_rect.right /\ g_rect.top <= g_rect.bottom)
          => g_out.top = g_rect.top /\ g_out.bottom = g_rect.bottom

\* both axes inverted: each is corrected from its own edges only
C10_Witness ==
    /\ g_op = "sanatize"
    /\ g_rect.top > g_rect.bottom
    /\ g_rect.left > g_rect.right
    /\ g_out.top = g_rect.bottom + 4
    /\ g_out.left = g_rect.right + 4

QuitSignals == { i \in DOMAIN emitted : emitted[i].sig = "on_quit_or_hide" }

\* C11: an Escape handled by an idle window emits exactly one on_quit_or_hide
\* with the reason "esc button pressed" and changes neither is_selecting nor
\* selection_rect nor is_positioned; an Escape handled by a selecting window
\* emits no on_quit_or_hide.  (Written Q \/ ~P, as C3.)
C11_EscapeIdleQuits ==
    [][ \A w \in Windows :
          /\ \/ /\ Len(emitted') = 1
                /\ emitted'[1].sig = "on_quit_or_hide"
                /\ emitted'[1].payload.reason = "esc button pressed"
                /\ UNCHANGED <<is_selecting, selection_rect, is_positioned>>
             \/ ~ ( ~is_selecting[w] /\ keyPressEvent(w, "Key_Escape") )
          /\ \/ QuitSignals' = {}
             \/ ~ ( is_selecting[w] /\ keyPressEvent(w, "Key_Escape") )
      ]_vars

\* an idle window handled an Escape while the other window was selecting
C11_Witness ==
    \E w, v \in Windows :
        /\ Len(emitted) = 1
        /\ emitted[1].sig = "on_quit_or_hide"
        /\ emitted[1].payload.reason = "esc button pressed"
        /\ ~is_selecting[w]
        /\ is_selecting[v]

\* C12: a constructed window has the placement procedure of its platform alone
\* (Linux: the one Linux procedure under either display manager); on any other
\* platform construction fails, no procedure is applied and the window is not
\* shown.
C12_FullscreenByPlatform ==
    \A w \in Windows :
        /\ constructed[w] = "ok"
           => /\ platform \in {"LINUX", "MACOS", "WINDOWS"}
              /\ platform = "LINUX" => fullscreen[w] = "linux_wayland"
              /\ platform = "MACOS" => fullscreen[w] = "macos"
              /\ platform = "WINDOWS" => fullscreen[w] = "windows"
        /\ constructed[w] = "failed"
           => /\ platform \notin {"LINUX", "MACOS", "WINDOWS"}
              /\ fullscreen[w] = "none"
              /\ ~shown[w]
        /\ (constructed[w] # "new" /\ platform \notin {"LINUX", "MACOS", "WINDOWS"})
           => constructed[w] = "failed"

\* construction of the main window failed on an unsupported platform
C12_Witness ==
    /\ platform = "OTHER"
    /\ constructed[0] = "failed"
    /\ fullscreen[0] = "none"
    /\ ~shown[0]

\* C13: a primary-button press sets the window's mode_indicator from the
\* capture mode of that moment (RAW: U+2630, PARSE: U+2605, otherwise empty),
\* and no other step changes it: not a move, a release, an Escape or a change
\* of the capture mode.  (Written Q \/ ~P, as C3.)
C13_ModeIndicator ==
    [][ \A w \in Windows :
          /\ \/ /\ capture_mode = "RAW" => mode_indicator'[w] = "TRIGRAM"
                /\ capture_mode = "PARSE" => mode_indicator'[w] = "STAR"
                /\ capture_mode \notin {"RAW", "PARSE"} => mode_indicator'[w] = ""
             \/ ~ \E p \in Points : mousePressEvent(w, "LeftButton", p)
          /\ \/ mode_indicator'[w] = mode_indicator[w]
             \/ \E p \in Points : mousePressEvent(w, "LeftButton", p)
      ]_vars

\* a selection started in PARSE mode keeps its glyph after the mode became RAW
C13_Witness ==
    \E w \in Windows :
        /\ is_selecting[w]
        /\ mode_indicator[w] = "STAR"
        /\ capture_mode = "RAW"

\* the rectangle whose four edges are the point p
PointRect(p) == Rect(p.y, p.x, p.y, p.x)

\* C14: a primary-button press at p leaves the selection rectangle with its
\* four edges at p; when the release comes at the same p with the rectangle
\* still as the press left it (no move), the rectangle finalized at release,
\* before _to_global_rect and _sanatize_rect, has right - left = 0,
\* bottom - top = 0 and its edges at p, and that rectangle is what is converted
\* and emitted.
C14_PressReleaseNoMove ==
    [][ \A w \in Windows, p \in Points :
          /\ \/ selection_rect'[w] = PointRect(p)
             \/ ~ mousePressEvent(w, "LeftButton", p)
          /\ ( /\ is_selecting[w]
               /\ selection_rect[w] = PointRect(p)
               /\ mouseReleaseEvent(w, "LeftButton", p) )
             => /\ FinalRect(w, p).right - FinalRect(w, p).left = 0
                /\ FinalRect(w, p).bottom - FinalRect(w, p).top = 0
                /\ FinalRect(w, p) = PointRect(p)
                /\ Len(emitted') = 3
                /\ emitted'[3].payload.rect
                      = CaptureRect(PointRect(p), screens[screen_idx(w) + 1])
      ]_vars

\* a press at (300, 50) was released at the same point
C14_Witness ==
    \E w \in Windows :
        /\ Len(emitted) = 3
        /\ emitted[3].payload.idx = screen_idx(w)
        /\ emitted[3].payload.rect
              = CaptureRect(PointRect([x |-> 300, y |-> 50]), screens[screen_idx(w) + 1])
        /\ selection_rect[w] = EmptyRect

\* C15: on the window of screen 1 at (left 1920, top 0), a selection pressed at
\* local (100, 100) and released at local (300, 50) emits one
\* on_region_selected whose rectangle is top 52, left 2022, bottom 98,
\* right 2218 (translated by (1920, 0) and shrunk by 2 to top 102, left 2022,
\* bottom 48, right 2218, then swapped vertically with the correction 4), with
\* top <= bottom and the screen index 1.
C15_EndToEnd ==
    [][ ( /\ screens[2] = [left |-> 1920, top |-> 0]
          /\ is_selecting[1]
          /\ selection_rect[1].top = 100
          /\ selection_rect[1].left = 100
          /\ mouseReleaseEvent(1, "LeftButton", [x |-> 300, y |-> 50]) )
        => /\ ToGlobalRect(FinalRect(1, [x |-> 300, y |-> 50]), screens[2])
                 = Rect(102, 2022, 48, 2218)
           /\ RegionSignals' = {3}
           /\ emitted'[3].payload.rect = Rect(52, 2022, 98, 2218)
           /\ emitted'[3].payload.rect.top <= emitted'[3].payload.rect.bottom
           /\ emitted'[3].payload.idx = 1
      ]_vars

\* the window of screen 1 at (1920, 0) emitted the rectangle of the example
C15_Witness ==
    /\ screens[2] = [left |-> 1920, top |-> 0]
    /\ Len(emitted) = 3
    /\ emitted[3].sig = "on_region_selected"
    /\ emitted[3].payload.rect = Rect(52, 2022, 98, 2218)
    /\ emitted[3].payload.idx = 1

\* C16: a pointer move on a selecting window changes at most the bottom and
\* right edges of its selection rectangle, and a pointer move on an idle
\* window leaves the selection rectangle as it is.
C16_MoveOnlyWhileSelecting ==
    [][ \A w \in Windows, p \in Points :
          mouseMoveEvent(w, p)
          => IF is_selecting[w]
             THEN /\ selection_rect'[w].top = selection_rect[w].top
                  /\ selection_rect'[w].left = selection_rect[w].left
             ELSE selection_rect'[w] = selection_rect[w]
      ]_vars

\* the selection state of one window
WindowState(w) ==
    <<is_selecting[w], selection_rect[w], mode_indicator[w], is_positioned[w]>>

\* the step is a handler of window w
HandledBy(w) ==
    \/ \E key \in Keys : keyPressEvent(w, key)
    \/ \E b \in Buttons, p \in Points : mousePressEvent(w, b, p)
    \/ \E p \in Points : mouseMoveEvent(w, p)
    \/ \E b \in Buttons, p \in Points : mouseReleaseEvent(w, b, p)
    \/ \E t \in ChangeTypes, a \in BOOLEAN : changeEvent(w, t, a)

\* C17: an event handled by one window leaves is_selecting, selection_rect,
\* mode_indicator and is_positioned of every other window unchanged, the main
\* window's included when a sibling handles the event.
\* (Written Q \/ ~P, as C3.)
C17_WindowsIndependent ==
    [][ \A w, v \in Windows :
          \/ w = v
          \/ WindowState(v)' = WindowState(v)
          \/ ~ HandledBy(w)
      ]_vars

\* the sibling is selecting with a dragged rectangle while the main window,
\* positioned and idle, still has the rectangle of an aborted selection
C17_Witness ==
    /\ is_selecting[1]
    /\ selection_rect[1].bottom # selection_rect[1].top
    /\ ~is_selecting[0]
    /\ selection_rect[0].top # 0
    /\ selection_rect[0] # selection_rect[1]
    /\ is_positioned[0]
    /\ ~is_positioned[1]

\* the distance of the drawn text from the bottom-left corner of the rectangle
\* (smaller of left and right, larger of top and bottom)
FromBottomLeft(w) ==
    LET r == selection_rect[w]
        text == paintEvent(w)[2]
    IN  << text.x - (IF r.left <= r.right THEN r.left ELSE r.right),
           text.y - (IF r.top >= r.bottom THEN r.top ELSE r.bottom) >>

\* C18 as claimed: nothing is drawn on an idle window, and on selecting windows
\* the glyph sits at one fixed offset from the bottom-left corner (the same
\* offset for any two selecting windows, whatever their drag directions).
C18_GlyphBottomLeft ==
    /\ \A w \in Windows : ~is_selecting[w] => paintEvent(w) = << >>
    /\ \A w, v \in Windows :
          (is_selecting[w] /\ is_selecting[v]) => FromBottomLeft(w) = FromBottomLeft(v)

\* C18: nothing is drawn on an idle window, and on a selecting window the
\* rectangle is drawn and then the mode_indicator glyph at the top-right
\* corner: x is the larger of left and right minus 18, y the smaller of top
\* and bottom minus 8, whatever the drag direction.
C18_GlyphTopRight ==
    \A w \in Windows :
        LET r == selection_rect[w]
            calls == paintEvent(w)
        IN  /\ ~is_selecting[w] => calls = << >>
            /\ is_selecting[w]
               => /\ Len(calls) = 2
                  /\ calls[1].op = "drawRect" /\ calls[1].rect = r
                  /\ calls[2].op = "drawText" /\ calls[2].text = mode_indicator[w]
                  /\ calls[2].x = (IF r.left <= r.right THEN r.right ELSE r.left) - 18
                  /\ calls[2].y = (IF r.top <= r.bottom THEN r.top ELSE r.bottom) - 8

\* a selecting window dragged up and to the right, the other window idle
C18_Witness ==
    \E w, v \in Windows :
        /\ is_selecting[w]
        /\ selection_rect[w].top > selection_rect[w].bottom
        /\ selection_rect[w].left < selection_rect[w].right
        /\ paintEvent(w)[2].x = selection_rect[w].right - 18
        /\ paintEvent(w)[2].y = selection_rect[w].bottom - 8
        /\ ~is_selecting[v]
        /\ paintEvent(v) = << >>

\* the drags between opposite corners of the rectangle of a drag: top and
\* left are the press point, bottom and right the release point
CornerDrags(rect) ==
    { rect, Reversed(rect),
      Rect(rect.top, rect.right, rect.bottom, rect.left),
      Rect(rect.bottom, rect.left, rect.top, rect.right) }

Abs(n) == IF n >= 0 THEN n ELSE -n

\* C19: when press and release points differ by at least 4 on each axis, the
\* captured rectangle is, on each axis, (smaller coordinate + offset + 2,
\* larger coordinate + offset - 2), and it is the same for each of the four
\* drags between opposite corners.
C19_DirectionIndependent ==
    ( /\ g_op = "capture"
      /\ Abs(g_rect.top - g_rect.bottom) >= 4
      /\ Abs(g_rect.left - g_rect.right) >= 4 )
    => /\ g_out.top = (IF g_rect.top <= g_rect.bottom THEN g_rect.top ELSE g_rect.bottom)
                         + g_screen.top + 2
       /\ g_out.bottom = (IF g_rect.top <= g_rect.bottom THEN g_rect.bottom ELSE g_rect.top)
                            + g_screen.top - 2
       /\ g_out.left = (IF g_rect.left <= g_rect.right THEN g_rect.left ELSE g_rect.right)
                          + g_screen.left + 2
       /\ g_out.right = (IF g_rect.left <= g_rect.right THEN g_rect.right ELSE g_rect.left)
                           + g_screen.left - 2
       /\ \A d \in CornerDrags(g_rect) : CaptureRect(d, g_screen) = g_out

\* a drag up and to the left by more than 4, on a screen with both offsets
C19_Witness ==
    /\ g_op = "capture"
    /\ g_rect.top - g_rect.bottom > 4
    /\ g_rect.left - g_rect.right > 4
    /\ g_screen = [left |-> 1920, top |-> 1080]
    /\ g_out = Rect(g_rect.bottom + 1082, g_rect.right + 1922,
                    g_rect.top + 1078, g_rect.left + 1918)

====
